---- MODULE Spec2Model ----
(***************************************************************************)
(* A model of khoj's full-text index (src/src/model.rs) and of the         *)
(* parallel indexing pipeline that feeds it (src/src/lib.rs).              *)
(*                                                                         *)
(* A text is a sequence of characters; the tokenizer splits it into        *)
(* tokens.  SystemTime values are natural numbers.  A HashMap is a         *)
(* function with a finite domain.  usize arithmetic wraps at UsizeMax.     *)
(***************************************************************************)
EXTENDS Integers, Sequences, FiniteSets, TLC

VARIABLES
    docs,             \* Model.docs : path -> Doc
    df,               \* Model.df   : token -> usize
    fault,            \* "none", or how a usize overflow ended: "panic" / "wrapped"
    legacy,           \* paths whose Document was loaded without a positions field
    last,             \* the last call made on the index and what it returned
    result,           \* the Vec<(PathBuf, f32)> the last search_query returned
    disk,             \* the files under the indexed folder
    files,            \* the file each pipeline worker was handed
    names,            \* the file name (last component) of each path
    wk,               \* each worker's place in the closure, its mtime and statistics,
                      \* and whether it has committed in this run
    lock,             \* who holds the Mutex<Model>
    processed_count,  \* the AtomicUsize of the run
    committed,        \* the index as the last finished add_document left it
    quiet,            \* the run repeats the previous one over unchanged files
    IGNORER,          \* the OnceLock<Gitignore> of ignore_rules
    callers,          \* the threads that call ignore_rules::init
    khojignore,       \* the .khojignore file under each root
    index_file,       \* the snapshot file: what was saved, and whether it was loaded
    app,              \* the App of the terminal UI
    loop              \* run_app: whether its loop runs or how it returned, the
                      \* key read in its last iteration, and how many key events
                      \* are still to come

indexVars == <<docs, df, fault, legacy>>
pipeVars == <<disk, files, names, wk, lock, processed_count, committed, quiet>>
ignoreVars == <<IGNORER, callers, khojignore>>
tuiVars == <<app, loop>>
outerVars == <<ignoreVars, index_file, tuiVars>>
vars == <<docs, df, fault, legacy, last, result,
          disk, files, names, wk, lock, processed_count, committed, quiet,
          IGNORER, callers, khojignore, index_file, app, loop>>

(***************************************************************************)
(* Bounds of the model.                                                    *)
(***************************************************************************)
\* the longest text, in words
MaxLen == 2
\* the latest SystemTime
MaxTime == 1

\* usize::MAX; the model's integers are 32 bits wide, so the wrap-around of
\* usize is kept at the widest value the checker can hold.
UsizeMax == 2147483647

Paths == {"p1", "p2"}
Times == 0 .. MaxTime
Words == {"a", "b"}
\* the largest count a loaded snapshot holds in df
MaxDf == 2

\* key events of one session of the terminal UI
MaxKeys == 3
NoCall == [op |-> "none", path |-> "p1", mtime |-> 0, text |-> <<>>,
           existed |-> FALSE, ret |-> FALSE]

EmptyMap == [x \in {} |-> 0]

Range(s) == {s[i] : i \in DOMAIN s}

Restrict(f, S) == [x \in S |-> f[x]]

(***************************************************************************)
(* Texts: words joined by one blank.                                       *)
(***************************************************************************)
RECURSIVE Join(_)
Join(ws) ==
    IF Len(ws) = 0 THEN <<>>
    ELSE IF Len(ws) = 1 THEN <<ws[1]>>
    ELSE <<ws[1], " ">> \o Join(Tail(ws))

WordSeqs(n) == UNION {[1 .. k -> Words] : k \in 0 .. n}

Texts == {Join(ws) : ws \in WordSeqs(MaxLen)}

\* queries: the texts, and the runs of blanks
Blanks == {[i \in 1 .. k |-> " "] : k \in 1 .. MaxLen}

Queries == Texts \cup Blanks

\* what the keys of the terminal UI type, and the queries they make
KeyChars == {"a", "b", " "}

TuiQueries == {SubSeq(ks, 1, Len(ks)) : ks \in UNION {[1 .. k -> KeyChars] : k \in 0 .. MaxKeys}}

(***************************************************************************)
(* The ranking laws are about corpora of three Documents over three words, *)
(* with texts one word longer than the texts the index operations are fed. *)
(***************************************************************************)
RankWords == Words \cup {"c"}

RankPaths == Paths \cup {"p3"}

RankTexts == {Join(ws) : ws \in UNION {[1 .. k -> RankWords] : k \in 0 .. MaxLen + 1}}

\* the ranking treats all words alike: the queries begin with one of them
RankQueries == {Join(<<"a">>)} \cup {Join(<<"a", y>>) : y \in RankWords}

\* the texts of the end-to-end scenario, character by character
TheQuickBrownFox ==
    <<"t","h","e"," ","q","u","i","c","k"," ","b","r","o","w","n"," ","f","o","x">>

TheLazyDog == <<"t","h","e"," ","l","a","z","y"," ","d","o","g">>

QuickFoxQuickFox ==
    <<"q","u","i","c","k"," ","f","o","x"," ","q","u","i","c","k"," ","f","o","x">>

QuickFox == <<"q","u","i","c","k"," ","f","o","x">>

ScenarioTexts == {TheQuickBrownFox, TheLazyDog, QuickFoxQuickFox, QuickFox}

(***************************************************************************)
(* The tokenizer: maximal alphanumeric runs, lower-cased and stemmed.  Of  *)
(* the words of the model the English stemmer changes only "lazy".         *)
(***************************************************************************)
Letters ==
    {"a", "b", "c", "d", "e", "f", "g", "h", "i", "k", "l", "n", "o", "q",
     "r", "t", "u", "w", "x", "y", "z"}

IsAlphanumeric(c) == c \in Letters \cup {"A", "B"}

ToLowercase(c) == IF c = "A" THEN "a" ELSE IF c = "B" THEN "b" ELSE c

Stem(w) == IF w = "lazy" THEN "lazi" ELSE w

RECURSIVE LexFrom(_, _, _, _)
LexFrom(text, i, run, acc) ==
    LET flushed == IF run = "" THEN acc ELSE Append(acc, Stem(run)) IN
    IF i > Len(text) THEN flushed
    ELSE IF IsAlphanumeric(text[i])
         THEN LexFrom(text, i + 1, run \o ToLowercase(text[i]), acc)
         ELSE LexFrom(text, i + 1, "", flushed)

\* the tokenizer is a pure function: its value on each text, computed once
LexTable ==
    [text \in Queries \cup TuiQueries \cup RankTexts \cup RankQueries \cup ScenarioTexts |->
        LexFrom(text, 1, "", <<>>)]

Lexer(text) == LexTable[text]

(***************************************************************************)
(* usize arithmetic of model.rs: `*f -= 1` and `*f += 1`.                  *)
(***************************************************************************)
UsizeDec(f) == IF f = 0 THEN UsizeMax ELSE f - 1

UsizeInc(f) == IF f = UsizeMax THEN 0 ELSE f + 1

(***************************************************************************)
(* Model::remove_document.  `overflow` tells that a count of 0 was         *)
(* decremented.                                                            *)
(***************************************************************************)
remove_document_keep_df(m, file_path) ==
    IF file_path \in DOMAIN m.docs
    THEN [docs |-> Restrict(m.docs, DOMAIN m.docs \ {file_path}),
          df |-> m.df, overflow |-> FALSE]
    ELSE [docs |-> m.docs, df |-> m.df, overflow |-> FALSE]

remove_document(m, file_path) ==
    IF file_path \in DOMAIN m.docs
    THEN LET doc == m.docs[file_path]
             hit == DOMAIN doc.tf \cap DOMAIN m.df
         IN [docs |-> Restrict(m.docs, DOMAIN m.docs \ {file_path}),
             df |-> [t \in DOMAIN m.df |->
                        IF t \in hit THEN UsizeDec(m.df[t]) ELSE m.df[t]],
             overflow |-> \E t \in hit : m.df[t] = 0]
    ELSE [docs |-> m.docs, df |-> m.df, overflow |-> FALSE]

(***************************************************************************)
(* Model::requires_reindexing: the index after the call, and the result.   *)
(***************************************************************************)
requires_reindexing_new_only(m, file_path, last_modified) ==
    [docs |-> m.docs, df |-> m.df, ret |-> file_path \notin DOMAIN m.docs]

requires_reindexing_le(m, file_path, last_modified) ==
    [docs |-> m.docs, df |-> m.df,
     ret |-> IF file_path \in DOMAIN m.docs
             THEN m.docs[file_path].last_modified <= last_modified
             ELSE TRUE]

requires_reindexing_evict(m, file_path, last_modified) ==
    LET stale == IF file_path \in DOMAIN m.docs
                 THEN m.docs[file_path].last_modified < last_modified
                 ELSE TRUE
        r == remove_document(m, file_path)
    IN IF stale THEN [docs |-> r.docs, df |-> r.df, ret |-> TRUE]
       ELSE [docs |-> m.docs, df |-> m.df, ret |-> FALSE]

requires_reindexing(m, file_path, last_modified) ==
    [docs |-> m.docs, df |-> m.df,
     ret |-> IF file_path \in DOMAIN m.docs
             THEN m.docs[file_path].last_modified < last_modified
             ELSE TRUE]

(***************************************************************************)
(* The statistics add_document gathers from the token stream.              *)
(***************************************************************************)
TermFreqOf(tokens) ==
    [t \in Range(tokens) |-> Cardinality({i \in DOMAIN tokens : tokens[i] = t})]

PositionsOf_first(tokens) ==
    [t \in Range(tokens) |->
        <<(CHOOSE i \in DOMAIN tokens :
              tokens[i] = t /\ \A j \in DOMAIN tokens : tokens[j] = t => i <= j) - 1>>]

PositionsOf(tokens) ==
    [t \in Range(tokens) |->
        SelectSeq([i \in 1 .. Len(tokens) |-> i - 1],
                  LAMBDA idx : tokens[idx + 1] = t)]

FoldInto_overwrite(dfmap, tf) ==
    [t \in DOMAIN dfmap \cup DOMAIN tf |-> IF t \in DOMAIN tf THEN 1 ELSE dfmap[t]]

\* the loop over tf.keys() that folds the new Document into df
FoldInto(dfmap, tf) ==
    [t \in DOMAIN dfmap \cup DOMAIN tf |->
        IF t \in DOMAIN tf
        THEN IF t \in DOMAIN dfmap THEN UsizeInc(dfmap[t]) ELSE 1
        ELSE dfmap[t]]

FoldOverflows(dfmap, tf) ==
    \E t \in DOMAIN tf \cap DOMAIN dfmap : dfmap[t] = UsizeMax

MakeDoc(tokens, last_modified) ==
    [count |-> Len(tokens), tf |-> TermFreqOf(tokens),
     last_modified |-> last_modified, positions |-> PositionsOf(tokens)]

Insert(docmap, file_path, doc) ==
    [p \in DOMAIN docmap \cup {file_path} |->
        IF p = file_path THEN doc ELSE docmap[p]]

(***************************************************************************)
(* Model::add_document.                                                    *)
(***************************************************************************)
add_document_merge(m, file_path, last_modified, content) ==
    LET r == remove_document(m, file_path)
        doc == MakeDoc(Lexer(content), last_modified)
        old == IF file_path \in DOMAIN m.docs THEN m.docs[file_path].tf ELSE EmptyMap
        merged == [t \in DOMAIN old \cup DOMAIN doc.tf |->
                     IF t \in DOMAIN doc.tf THEN doc.tf[t] ELSE old[t]]
    IN [docs |-> Insert(r.docs, file_path, [doc EXCEPT !.tf = merged]),
        df |-> FoldInto(r.df, doc.tf),
        overflow |-> r.overflow \/ FoldOverflows(r.df, doc.tf)]

add_document(m, file_path, last_modified, content) ==
    LET r == remove_document(m, file_path)
        doc == MakeDoc(Lexer(content), last_modified)
    IN [docs |-> Insert(r.docs, file_path, doc),
        df |-> FoldInto(r.df, doc.tf),
        overflow |-> r.overflow \/ FoldOverflows(r.df, doc.tf)]

(***************************************************************************)
(* What a build makes of add_document: without an overflow, its result;    *)
(* with one, the wrapped result (overflow checks off) or a panic that      *)
(* leaves the Document removed and some of its counts decremented          *)
(* (overflow checks on; the order of tf.keys() is arbitrary).              *)
(***************************************************************************)
PanicStates(m, file_path) ==
    LET rest == Restrict(m.docs, DOMAIN m.docs \ {file_path})
        keys == IF file_path \in DOMAIN m.docs
                THEN {t \in DOMAIN m.docs[file_path].tf \cap DOMAIN m.df : m.df[t] > 0}
                ELSE {}
    IN {[docs |-> rest,
         df |-> [t \in DOMAIN m.df |-> IF t \in S THEN m.df[t] - 1 ELSE m.df[t]],
         fault |-> "panic"] : S \in SUBSET keys}

Outcomes(m, file_path, last_modified, content) ==
    LET r == add_document(m, file_path, last_modified, content) IN
    IF r.overflow
    THEN {[docs |-> r.docs, df |-> r.df, fault |-> "wrapped"]}
         \cup PanicStates(m, file_path)
    ELSE {[docs |-> r.docs, df |-> r.df, fault |-> "none"]}

(***************************************************************************)
(* The index used through its interface by one caller.                     *)
(***************************************************************************)
Index == [docs |-> docs, df |-> df]

AddDocument(p, t, text) ==
    /\ fault # "panic"
    /\ \E o \in Outcomes(Index, p, t, text) :
          /\ o.fault = "panic" => fault = "none"
          /\ docs' = o.docs
          /\ df' = o.df
          /\ fault' = IF o.fault = "none" THEN fault ELSE o.fault
    /\ legacy' = legacy \ {p}
    /\ last' = [op |-> "add_document", path |-> p, mtime |-> t, text |-> text,
                existed |-> p \in DOMAIN docs, ret |-> FALSE]
    /\ UNCHANGED result
    /\ UNCHANGED pipeVars
    /\ UNCHANGED outerVars

RequiresReindexing(p, t) ==
    /\ fault # "panic"
    /\ LET r == requires_reindexing(Index, p, t) IN
          /\ docs' = r.docs
          /\ df' = r.df
          /\ last' = [op |-> "requires_reindexing", path |-> p, mtime |-> t,
                      text |-> <<>>, existed |-> p \in DOMAIN docs, ret |-> r.ret]
    /\ UNCHANGED <<fault, legacy, result>>
    /\ UNCHANGED pipeVars
    /\ UNCHANGED outerVars

(***************************************************************************)
(* f32 ranks.  A rank is NaN, an infinity, or a finite value kept as an    *)
(* exact fraction n/d (d > 0) in lowest terms; f32 rounding is left out.   *)
(* log10 of a count is read from a table in thousandths.                   *)
(***************************************************************************)
Log10Milli == <<0, 301, 477, 602, 699, 778, 845, 903>>

NaN == [k |-> "nan", n |-> 0, d |-> 1]
Inf == [k |-> "inf", n |-> 0, d |-> 1]
NegInf == [k |-> "ninf", n |-> 0, d |-> 1]

Abs(i) == IF i < 0 THEN 0 - i ELSE i

RECURSIVE GCD(_, _)
GCD(a, b) == IF b = 0 THEN a ELSE GCD(b, a % b)

Fin(n, d) ==
    LET g == GCD(Abs(n), d) IN [k |-> "fin", n |-> n \div g, d |-> d \div g]

\* -1, 0 or 1; not used on NaN
Sign(x) ==
    CASE x.k = "inf" -> 1
      [] x.k = "ninf" -> 0 - 1
      [] OTHER -> IF x.n > 0 THEN 1 ELSE IF x.n < 0 THEN 0 - 1 ELSE 0

\* f32 +
Add(x, y) ==
    IF x.k = "nan" \/ y.k = "nan" THEN NaN
    ELSE IF x.k = "fin" /\ y.k = "fin" THEN Fin(x.n * y.d + y.n * x.d, x.d * y.d)
    ELSE IF x.k = "fin" THEN y
    ELSE IF y.k = "fin" \/ y.k = x.k THEN x
    ELSE NaN

\* f32 *
Mul(x, y) ==
    IF x.k = "nan" \/ y.k = "nan" THEN NaN
    ELSE IF x.k = "fin" /\ y.k = "fin" THEN Fin(x.n * y.n, x.d * y.d)
    ELSE IF Sign(x) * Sign(y) = 0 THEN NaN
    ELSE IF Sign(x) * Sign(y) > 0 THEN Inf
    ELSE NegInf

\* usize as f32 / usize as f32
Div(m, n) ==
    IF n = 0 THEN (IF m = 0 THEN NaN ELSE Inf) ELSE Fin(m, n)

\* f32::log10 of n as f32 / m as f32
Log10Ratio(n, m) ==
    IF m = 0 THEN (IF n = 0 THEN NaN ELSE Inf)
    ELSE IF n = 0 THEN NegInf
    ELSE Fin(Log10Milli[n] - Log10Milli[m], 1000)

\* f32 <, false when either side is NaN
Less(x, y) ==
    /\ x.k # "nan"
    /\ y.k # "nan"
    /\ x # y
    /\ \/ x.k = "ninf"
       \/ y.k = "inf"
       \/ x.k = "fin" /\ y.k = "fin" /\ x.n * y.d < y.n * x.d

compute_tf(t, doc) ==
    Div(IF t \in DOMAIN doc.tf THEN doc.tf[t] ELSE 0, doc.count)

compute_idf_inverse(t, n, dfmap) ==
    Log10Ratio(IF t \in DOMAIN dfmap THEN dfmap[t] ELSE 1, n)

compute_idf(t, n, dfmap) ==
    Log10Ratio(n, IF t \in DOMAIN dfmap THEN dfmap[t] ELSE 1)

phrase_in_doc_any_order(tokens, doc) ==
    /\ tokens # <<>>
    /\ \A i \in DOMAIN tokens : tokens[i] \in DOMAIN doc.tf

phrase_in_doc_first_start(tokens, doc) ==
    /\ tokens # <<>>
    /\ \A i \in DOMAIN tokens : tokens[i] \in DOMAIN doc.tf
    /\ tokens[1] \in DOMAIN doc.positions
    /\ doc.positions[tokens[1]] # <<>>
    /\ LET start == doc.positions[tokens[1]][1] IN
       \A i \in 2 .. Len(tokens) :
           /\ tokens[i] \in DOMAIN doc.positions
           /\ start + i - 1 \in Range(doc.positions[tokens[i]])

\* positions are kept ascending, so binary_search finds exactly the members
phrase_in_doc(tokens, doc) ==
    /\ tokens # <<>>
    /\ \A i \in DOMAIN tokens : tokens[i] \in DOMAIN doc.tf
    /\ tokens[1] \in DOMAIN doc.positions
    /\ \E j \in DOMAIN doc.positions[tokens[1]] :
          LET start == doc.positions[tokens[1]][j] IN
          \A i \in 2 .. Len(tokens) :
              /\ tokens[i] \in DOMAIN doc.positions
              /\ start + i - 1 \in Range(doc.positions[tokens[i]])

RECURSIVE BaseRank(_, _, _)
BaseRank(tokens, doc, m) ==
    IF tokens = <<>> THEN Fin(0, 1)
    ELSE Add(BaseRank(SubSeq(tokens, 1, Len(tokens) - 1), doc, m),
             Mul(compute_tf(tokens[Len(tokens)], doc),
                 compute_idf(tokens[Len(tokens)], Cardinality(DOMAIN m.docs), m.df)))

\* the factor for a Document holding `present` of the n distinct query tokens
coverage_factor_linear(present, n) ==
    IF present >= n THEN Fin(3, 2) ELSE Fin(present, n)

coverage_factor_inverse(present, n) ==
    IF present >= n THEN Fin(3, 2)
    ELSE Mul(Div(n, present), Div(n, present))

coverage_factor(present, n) ==
    IF present >= n THEN Fin(3, 2) ELSE Fin(present * present, n * n)

\* the rank search_query gives one Document
Rank(tokens, doc, m) ==
    LET distinct == Range(tokens)
        present == Cardinality({t \in distinct : t \in DOMAIN doc.tf})
        n == Cardinality(distinct)
        covered == IF n > 1
                   THEN Mul(BaseRank(tokens, doc, m), coverage_factor(present, n))
                   ELSE BaseRank(tokens, doc, m)
    IN  IF Len(tokens) > 1 /\ phrase_in_doc(tokens, doc)
        THEN Mul(covered, Fin(2, 1)) ELSE covered

\* the orders in which a HashMap with these keys may be iterated
IterOrders(S) ==
    {o \in [1 .. Cardinality(S) -> S] : \A i, j \in DOMAIN o : i # j => o[i] # o[j]}

\* the entries pushed while iterating the documents in this order
RECURSIVE Collect(_, _, _)
Collect(order, tokens, m) ==
    IF order = <<>> THEN <<>>
    ELSE LET n == Len(order)
             head == Collect(SubSeq(order, 1, n - 1), tokens, m)
             rank == Rank(tokens, m.docs[order[n]], m)
         IN  IF rank.k # "nan"
             THEN Append(head, [path |-> order[n], rank |-> rank]) ELSE head

\* slice::sort_by with partial_cmp: stable, ascending
InsertSorted(s, e) ==
    LET k == Cardinality({i \in DOMAIN s : ~ Less(e.rank, s[i].rank)}) IN
    SubSeq(s, 1, k) \o <<e>> \o SubSeq(s, k + 1, Len(s))

RECURSIVE SortBy(_)
SortBy(s) ==
    IF s = <<>> THEN <<>>
    ELSE InsertSorted(SortBy(SubSeq(s, 1, Len(s) - 1)), s[Len(s)])

Reverse_kept(s) == s

Reverse(s) == [i \in DOMAIN s |-> s[Len(s) + 1 - i]]

search_query(m, query, order) ==
    Reverse(SortBy(Collect(order, Lexer(query), m)))

Search(q, order) ==
    /\ fault # "panic"
    /\ result' = search_query(Index, q, order)
    /\ last' = [op |-> "search", path |-> "p1", mtime |-> 0, text |-> q,
                existed |-> FALSE, ret |-> FALSE]
    /\ UNCHANGED indexVars
    /\ UNCHANGED pipeVars
    /\ UNCHANGED outerVars

\* Index::search of the UI up to its content search: the early return for
\* a query of fewer than 2 bytes, else Model::search_query
content_search_results(m, query, order) ==
    IF Len(query) = 0 \/ Len(query) < 2 THEN <<>>
    ELSE search_query(m, query, order)

UiSearch(q, order) ==
    /\ fault # "panic"
    /\ result' = content_search_results(Index, q, order)
    /\ last' = [op |-> "ui_search", path |-> "p1", mtime |-> 0, text |-> q,
                existed |-> FALSE, ret |-> FALSE]
    /\ UNCHANGED indexVars
    /\ UNCHANGED pipeVars
    /\ UNCHANGED outerVars

(***************************************************************************)
(* ignore_rules: the process-wide matcher.  A .khojignore file is known by *)
(* what its lines match; GitignoreBuilder::build gives the matcher or      *)
(* fails, and lines that do not parse are left out with a warning.         *)
(***************************************************************************)
Roots == {"r1", "r2"}

Threads == {"t1", "t2"}

\* what a matcher is asked: a path, and whether it is a directory
Probes == Paths \X BOOLEAN

NoIgnoreFile == [present |-> FALSE, globs |-> {}, builds |-> TRUE]

IgnoreFiles ==
    {NoIgnoreFile}
    \cup {[present |-> TRUE, globs |-> g, builds |-> b] :
             g \in SUBSET Probes, b \in BOOLEAN}

\* Gitignore::empty()
EmptyGitignore == {}

build_ignorer(root) ==
    LET f == khojignore[root]
        globs == IF f.present THEN f.globs ELSE {}
    IN  IF f.builds THEN globs ELSE EmptyGitignore

Unset == [state |-> "unset", root |-> "r1", ig |-> EmptyGitignore]

is_ignored_closed(path, is_dir) ==
    IF IGNORER.state = "set" THEN <<path, is_dir>> \in IGNORER.ig ELSE TRUE

\* IGNORER.get().map(|ig| ig.matched(path, is_dir).is_ignore()).unwrap_or(false)
is_ignored(path, is_dir) ==
    IF IGNORER.state = "set" THEN <<path, is_dir>> \in IGNORER.ig ELSE FALSE

\* a thread calls init(root)
CallInit(t, root) ==
    /\ callers[t].pc \in {"idle", "returned"}
    /\ callers' = [callers EXCEPT ![t] = [pc |-> "get_or_init", root |-> root]]
    /\ UNCHANGED <<IGNORER, khojignore>>
    /\ UNCHANGED <<indexVars, last, result>>
    /\ UNCHANGED pipeVars
    /\ UNCHANGED index_file
    /\ UNCHANGED tuiVars

GetOrInit_unguarded(t) ==
    /\ callers[t].pc = "get_or_init"
    /\ IGNORER' = [state |-> "running", root |-> callers[t].root, ig |-> EmptyGitignore]
    /\ callers' = [callers EXCEPT ![t].pc = "build"]
    /\ UNCHANGED khojignore
    /\ UNCHANGED <<indexVars, last, result>>
    /\ UNCHANGED pipeVars
    /\ UNCHANGED index_file
    /\ UNCHANGED tuiVars

\* OnceLock::get_or_init: the cell is full and the call is over, or it is
\* empty and this thread runs the closure; while another thread runs it
\* the call waits
GetOrInit(t) ==
    /\ callers[t].pc = "get_or_init"
    /\ IGNORER.state # "running"
    /\ IF IGNORER.state = "set"
       THEN /\ callers' = [callers EXCEPT ![t].pc = "returned"]
            /\ UNCHANGED IGNORER
       ELSE /\ callers' = [callers EXCEPT ![t].pc = "build"]
            /\ IGNORER' = [state |-> "running", root |-> callers[t].root,
                           ig |-> EmptyGitignore]
    /\ UNCHANGED khojignore
    /\ UNCHANGED <<indexVars, last, result>>
    /\ UNCHANGED pipeVars
    /\ UNCHANGED index_file
    /\ UNCHANGED tuiVars

\* the closure: build_ignorer(root), whose value fills the cell
Build(t) ==
    /\ callers[t].pc = "build"
    /\ IGNORER' = [state |-> "set", root |-> callers[t].root,
                   ig |-> build_ignorer(callers[t].root)]
    /\ callers' = [callers EXCEPT ![t].pc = "returned"]
    /\ UNCHANGED khojignore
    /\ UNCHANGED <<indexVars, last, result>>
    /\ UNCHANGED pipeVars
    /\ UNCHANGED index_file
    /\ UNCHANGED tuiVars

IsIgnored(path, is_dir) ==
    /\ last' = [op |-> "is_ignored", path |-> path, is_dir |-> is_dir,
                ret |-> is_ignored(path, is_dir)]
    /\ UNCHANGED ignoreVars
    /\ UNCHANGED <<indexVars, result>>
    /\ UNCHANGED pipeVars
    /\ UNCHANGED index_file
    /\ UNCHANGED tuiVars

(***************************************************************************)
(* The snapshot: serde_json writes the Model as a JSON object, docs and df *)
(* as objects keyed by path and token, a SystemTime as its seconds and     *)
(* nanoseconds since the epoch; reading it back fills new maps.            *)
(***************************************************************************)
NoIndexFile == [state |-> "none", json |-> [docs |-> EmptyMap, df |-> EmptyMap]]

SystemTimeToJson(t) == [secs_since_epoch |-> t, nanos_since_epoch |-> 0]

SystemTimeFromJson(j) == j.secs_since_epoch

DocToJson(doc) ==
    [count |-> doc.count, tf |-> doc.tf,
     last_modified |-> SystemTimeToJson(doc.last_modified),
     positions |-> doc.positions]

DocFromJson(j) ==
    [count |-> j.count, tf |-> j.tf,
     last_modified |-> SystemTimeFromJson(j.last_modified),
     positions |-> j.positions]

\* serde_json::to_writer(.., &model)
save_model_as_json(m) ==
    [docs |-> [p \in DOMAIN m.docs |-> DocToJson(m.docs[p])], df |-> m.df]

\* serde_json::from_reader(index_file)
from_reader(json) ==
    [docs |-> [p \in DOMAIN json.docs |-> DocFromJson(json.docs[p])], df |-> json.df]

\* the index is written to the snapshot file
Save ==
    /\ fault # "panic"
    /\ index_file.state = "none"
    /\ last.op = "search"
    /\ index_file' = [state |-> "saved", json |-> save_model_as_json(Index)]
    /\ UNCHANGED <<indexVars, last, result>>
    /\ UNCHANGED pipeVars
    /\ UNCHANGED ignoreVars
    /\ UNCHANGED tuiVars

\* a later process starts from the snapshot file
Load ==
    /\ index_file.state = "saved"
    /\ LET m == from_reader(index_file.json) IN
          /\ docs' = m.docs
          /\ df' = m.df
    /\ index_file' = [index_file EXCEPT !.state = "loaded"]
    /\ UNCHANGED <<fault, legacy, last, result>>
    /\ UNCHANGED pipeVars
    /\ UNCHANGED ignoreVars
    /\ UNCHANGED tuiVars

(***************************************************************************)
(* File names, character by character, and what the pipeline asks of them. *)
(***************************************************************************)
PlainName == <<"a", ".", "m", "d">>

FileNames ==
    {PlainName,
     <<"a", ".", "M", "D">>,
     <<".", "a", ".", "m", "d">>,
     <<".", "m", "d">>,
     <<"a">>,
     <<"a", ".", "x">>,
     <<"a", ".", "p", "d", "f">>,
     <<"a", ".", "x", "m", "l">>}

PlainNames == [p \in Paths |-> PlainName]

\* file_name().map(|s| s.starts_with("."))
dot_file(name) == name # <<>> /\ name[1] = "."

None == [some |-> FALSE, ext |-> <<>>]

Some(ext) == [some |-> TRUE, ext |-> ext]

\* Path::extension: what follows the last dot of the file name, where a dot
\* that begins the name does not count
extension(name) ==
    LET dots == {i \in 2 .. Len(name) : name[i] = "."} IN
    IF dots = {} THEN None
    ELSE LET lastdot == CHOOSE i \in dots : \A j \in dots : j <= i
         IN  Some(SubSeq(name, lastdot + 1, Len(name)))

AsciiLower(c) ==
    CASE c = "M" -> "m"
      [] c = "D" -> "d"
      [] c = "A" -> "a"
      [] c = "B" -> "b"
      [] OTHER -> c

RECURSIVE Concat(_)
Concat(chars) == IF chars = <<>> THEN "" ELSE chars[1] \o Concat(Tail(chars))

to_ascii_lowercase(chars) == Concat([i \in DOMAIN chars |-> AsciiLower(chars[i])])

\* the extensions add_folder_to_model lets through
Allowlist ==
    {"txt", "md", "xml", "xhtml", "pdf",
     "rs", "js", "jsx", "ts", "tsx",
     "json", "toml", "yaml", "yml",
     "py", "go", "java", "kt", "kts",
     "c", "h", "hpp", "hh", "cpp", "cc", "cxx",
     "cs", "rb", "php",
     "html", "htm", "css", "scss", "less",
     "mdx", "ini", "cfg", "conf",
     "sh", "bash", "zsh", "fish",
     "pl", "sql", "gradle", "properties",
     "r", "tex", "rst",
     "vue", "svelte", "dart", "erl", "ex", "exs", "lua", "nim"}

\* the extensions parse_entire_file_by_extension reads as XML and as text
XmlExtensions == {"xhtml", "xml"}

TxtExtensions ==
    {"txt", "md",
     "rs", "js", "jsx", "ts", "tsx",
     "json", "toml", "yaml", "yml",
     "py", "go", "java", "kt", "kts",
     "c", "h", "hpp", "hh", "cpp", "cc", "cxx",
     "cs", "rb", "php",
     "html", "htm", "css", "scss", "less",
     "mdx", "ini", "cfg", "conf",
     "sh", "bash", "zsh", "fish",
     "pl", "sql", "gradle", "properties",
     "r", "tex", "rst",
     "vue", "svelte", "dart", "erl", "ex", "exs", "lua", "nim"}

extractor_for_no_pdf(e) ==
    IF e \in XmlExtensions THEN "parse_entire_xml_file"
    ELSE IF e \in TxtExtensions THEN "parse_entire_txt_file"
    ELSE "Err"

\* the match of parse_entire_file_by_extension on the lower-cased extension
extractor_for(e) ==
    IF e \in XmlExtensions THEN "parse_entire_xml_file"
    ELSE IF e \in TxtExtensions THEN "parse_entire_txt_file"
    ELSE IF e = "pdf" THEN "parse_entire_pdf_file"
    ELSE "Err"

\* the extractor a file name is dispatched to, or Err
parse_entire_file_by_extension(name) ==
    IF extension(name).some
    THEN extractor_for(to_ascii_lowercase(extension(name).ext))
    ELSE "Err"

MatcherAtRest ==
    /\ IGNORER = Unset
    /\ callers = [t \in Threads |-> [pc |-> "idle", root |-> "r1"]]
    /\ khojignore = [r \in Roots |-> NoIgnoreFile]

(***************************************************************************)
(* The App of the terminal UI (tui.rs), kept without its preview pane.     *)
(***************************************************************************)
\* ListState::selected
NoSelection == [some |-> FALSE, i |-> 0]

Selected(i) == [some |-> TRUE, i |-> i]

\* App::new
NewApp(cache) ==
    [query |-> <<>>, results |-> <<>>, filename_cache |-> cache,
     results_state |-> NoSelection, last_search_query |-> <<>>,
     last_input_time |-> "None", needs_search |-> FALSE]

TuiAtRest ==
    /\ app = NewApp(<<>>)
    /\ loop = [state |-> "off", key |-> "None", events_left |-> 0]

(***************************************************************************)
(* The pipeline at rest, for the specifications that do not run it.        *)
(***************************************************************************)
Workers == {"w1", "w2"}

NoFile == [state |-> "gone", mtime |-> 0, text |-> <<>>]

NoData == [count |-> 0, tf |-> EmptyMap, positions |-> EmptyMap]

Idle == [pc |-> "done", mtime |-> 0, data |-> NoData, committed |-> FALSE]

PipelineAtRest ==
    /\ disk = [p \in Paths |-> NoFile]
    /\ files = [w \in Workers |-> "p1"]
    /\ names = PlainNames
    /\ wk = [w \in Workers |-> Idle]
    /\ lock = "free"
    /\ processed_count = 0
    /\ committed = Index
    /\ quiet = FALSE

InitIndex ==
    /\ docs = EmptyMap
    /\ df = EmptyMap
    /\ fault = "none"
    /\ legacy = {}
    /\ last = NoCall
    /\ result = <<>>
    /\ PipelineAtRest
    /\ MatcherAtRest
    /\ index_file = NoIndexFile
    /\ TuiAtRest

NextIndex ==
    \/ \E p \in Paths, t \in Times, text \in Texts :
          AddDocument(p, t, text)
    \/ \E p \in Paths, t \in Times : RequiresReindexing(p, t)

SpecIndex == InitIndex /\ [][NextIndex]_vars

(***************************************************************************)
(* The index loaded from a snapshot (serde_json::from_reader): any value   *)
(* of the snapshot's shape.  Each Document has the statistics of some      *)
(* text; a snapshot written before positions existed has none and gets     *)
(* the default, an empty map; df is whatever the file holds.               *)
(***************************************************************************)
WithoutPositions(docmap) ==
    [p \in DOMAIN docmap |-> [docmap[p] EXCEPT !.positions = EmptyMap]]

SnapshotDocs ==
    UNION {[S -> {MakeDoc(Lexer(text), 0) : text \in Texts}] : S \in SUBSET Paths}

SnapshotDf == UNION {[S -> 0 .. MaxDf] : S \in SUBSET Words}

InitSnapshot ==
    /\ \E d \in SnapshotDocs, old \in BOOLEAN :
          /\ docs = IF old THEN WithoutPositions(d) ELSE d
          /\ legacy = IF old THEN DOMAIN d ELSE {}
    /\ df \in SnapshotDf
    /\ fault = "none"
    /\ last = NoCall
    /\ result = <<>>
    /\ PipelineAtRest
    /\ MatcherAtRest
    /\ index_file = NoIndexFile
    /\ TuiAtRest

\* the first call made on the loaded index
NextSnapshot ==
    \E p \in Paths, text \in Texts :
        /\ last.op = "none"
        /\ AddDocument(p, MaxTime, text)

SpecSnapshot == InitSnapshot /\ [][NextSnapshot]_vars

\* a query made on the loaded index
NextSearch ==
    \E q \in Queries, order \in IterOrders(DOMAIN docs) :
        /\ last.op = "none"
        /\ \/ Search(q, order)
           \/ UiSearch(q, order)

SpecSearch == InitSnapshot /\ [][NextSearch]_vars

(***************************************************************************)
(* Queries on an index that calls of add_document built from nothing,      *)
(* Documents replaced by later calls included.                             *)
(***************************************************************************)
NextQuery ==
    \/ \E p \in Paths, text \in Texts :
          /\ last.op # "search"
          /\ AddDocument(p, 0, text)
    \/ \E q \in Queries, order \in IterOrders(DOMAIN docs) :
          /\ last.op # "search"
          /\ Search(q, order)

SpecQuery == InitIndex /\ [][NextQuery]_vars

(***************************************************************************)
(* Queries on a corpus that add_document built from nothing: two Documents *)
(* of equal term_count, which is what the ranking laws compare, with or    *)
(* without a third one, or the three Documents of the end-to-end scenario. *)
(***************************************************************************)
EmptyIndex == [docs |-> EmptyMap, df |-> EmptyMap]

RECURSIVE BuildCorpus(_)
BuildCorpus(files_) ==
    IF files_ = <<>> THEN EmptyIndex
    ELSE LET m == BuildCorpus(SubSeq(files_, 1, Len(files_) - 1))
             f == files_[Len(files_)]
             r == add_document(m, f[1], 0, f[2])
         IN [docs |-> r.docs, df |-> r.df]

ThirdTexts == {Join(<<"c">>)}

TextPairs == {xy \in RankTexts \X RankTexts : Len(xy[1]) = Len(xy[2])}

Corpora ==
    {<<<<"p1", xy[1]>>, <<"p2", xy[2]>>>> : xy \in TextPairs}
    \cup {<<<<"p1", xy[1]>>, <<"p2", xy[2]>>, <<"p3", z>>>> :
              xy \in TextPairs, z \in ThirdTexts}

Scenario == <<<<"p1", TheQuickBrownFox>>, <<"p2", TheLazyDog>>, <<"p3", QuickFoxQuickFox>>>>

InitRank ==
    /\ \E c \in Corpora \cup {Scenario} :
          LET m == BuildCorpus(c) IN docs = m.docs /\ df = m.df
    /\ legacy = {}
    /\ fault = "none"
    /\ last = NoCall
    /\ result = <<>>
    /\ PipelineAtRest
    /\ MatcherAtRest
    /\ index_file = NoIndexFile
    /\ TuiAtRest

NextRank ==
    \E q \in RankQueries \cup {QuickFox}, order \in IterOrders(DOMAIN docs) :
        /\ last.op = "none"
        /\ Search(q, order)

SpecRank == InitRank /\ [][NextRank]_vars

\* a query on the index, the index saved, loaded by the next process and
\* queried again
NextRoundTrip ==
    \/ \E q \in Queries, order \in IterOrders(DOMAIN docs) :
          /\ \/ index_file.state = "none" /\ last.op = "none"
             \/ index_file.state = "loaded"
          /\ Search(q, order)
    \/ Save
    \/ Load

SpecRoundTrip == InitSnapshot /\ [][NextRoundTrip]_vars

(***************************************************************************)
(* Model::compute_search_data and Model::add_document_precomputed, the     *)
(* two halves of add_document the pipeline calls: the statistics of a      *)
(* text, gathered without the lock, and their commit under it.             *)
(***************************************************************************)
compute_search_data(content) ==
    LET tokens == Lexer(content) IN
    [count |-> Len(tokens), tf |-> TermFreqOf(tokens),
     positions |-> PositionsOf(tokens)]

add_document_precomputed(m, file_path, last_modified, data) ==
    LET r == remove_document(m, file_path)
        doc == [count |-> data.count, tf |-> data.tf,
                last_modified |-> last_modified, positions |-> data.positions]
    IN [docs |-> Insert(r.docs, file_path, doc),
        df |-> FoldInto(r.df, doc.tf)]

(***************************************************************************)
(* add_folder_to_model.  The two workers are two tasks of the pool: of one *)
(* run, on two files, or of two runs over the same folder, on the same     *)
(* file.  A file is there with its mtime and text, there but not readable  *)
(* as text, or gone since the walk listed it.                              *)
(***************************************************************************)
FileTexts == {Join(<<"a">>), Join(<<"a", "b">>)}

FileLists == {[w \in Workers |-> IF w = "w1" THEN "p1" ELSE p] : p \in Paths}

DiskFiles ==
    {NoFile}
    \cup {[state |-> "corrupt", mtime |-> t, text |-> <<>>] : t \in Times}
    \cup {[state |-> "ok", mtime |-> t, text |-> x] : t \in Times, x \in FileTexts}

Fresh == [pc |-> "start", mtime |-> 0, data |-> NoData, committed |-> FALSE]

Filter_dot_files_pass(w) ==
    /\ wk[w].pc = "start"
    /\ LET name == names[files[w]]
           ext == extension(name)
           skip == \/ is_ignored(files[w], FALSE)
                   \/ ~ ext.some
                   \/ to_ascii_lowercase(ext.ext) \notin Allowlist
       IN  wk' = [wk EXCEPT ![w].pc = IF skip THEN "done" ELSE "stat"]
    /\ UNCHANGED <<indexVars, last, result, disk, files, lock, processed_count, committed, quiet, names>>
    /\ UNCHANGED outerVars

\* the tests at the head of the closure: the Ignore Matcher, the leading
\* dot, the extension and the allowlist
Filter(w) ==
    /\ wk[w].pc = "start"
    /\ LET name == names[files[w]]
           ext == extension(name)
           skip == \/ is_ignored(files[w], FALSE)
                   \/ dot_file(name)
                   \/ ~ ext.some
                   \/ to_ascii_lowercase(ext.ext) \notin Allowlist
       IN  wk' = [wk EXCEPT ![w].pc = IF skip THEN "done" ELSE "stat"]
    /\ UNCHANGED <<indexVars, last, result, disk, files, lock, processed_count, committed, quiet, names>>
    /\ UNCHANGED outerVars

Stat_purges_gone(w) ==
    /\ wk[w].pc = "stat"
    /\ wk' = [wk EXCEPT ![w] =
                 IF disk[files[w]].state = "gone"
                 THEN [@ EXCEPT !.pc = "done"]
                 ELSE [@ EXCEPT !.pc = "check_lock", !.mtime = disk[files[w]].mtime]]
    /\ docs' = IF disk[files[w]].state = "gone"
               THEN Restrict(docs, DOMAIN docs \ {files[w]}) ELSE docs
    /\ UNCHANGED <<df, fault, legacy, last, result, disk, files, lock, processed_count, committed, quiet, names>>
    /\ UNCHANGED outerVars

\* file_path.metadata().and_then(|m| m.modified())
Stat(w) ==
    /\ wk[w].pc = "stat"
    /\ wk' = [wk EXCEPT ![w] =
                 IF disk[files[w]].state = "gone"
                 THEN [@ EXCEPT !.pc = "done"]
                 ELSE [@ EXCEPT !.pc = "check_lock", !.mtime = disk[files[w]].mtime]]
    /\ UNCHANGED <<indexVars, last, result, disk, files, lock, processed_count, committed, quiet, names>>
    /\ UNCHANGED outerVars

\* model.lock().unwrap() before requires_reindexing
LockForCheck(w) ==
    /\ wk[w].pc = "check_lock"
    /\ lock = "free"
    /\ lock' = w
    /\ wk' = [wk EXCEPT ![w].pc = "check"]
    /\ UNCHANGED <<indexVars, last, result, disk, files, processed_count, committed, quiet, names>>
    /\ UNCHANGED outerVars

Check_always(w) ==
    /\ wk[w].pc = "check"
    /\ lock' = "free"
    /\ wk' = [wk EXCEPT ![w].pc = "parse"]
    /\ UNCHANGED <<indexVars, last, result, disk, files, processed_count, committed, quiet, names>>
    /\ UNCHANGED outerVars

Check_keeps_lock(w) ==
    /\ wk[w].pc = "check"
    /\ LET r == requires_reindexing(Index, files[w], wk[w].mtime) IN
          /\ docs' = r.docs
          /\ df' = r.df
          /\ wk' = [wk EXCEPT ![w].pc = IF r.ret THEN "parse" ELSE "done"]
    /\ UNCHANGED <<fault, legacy, last, result, disk, files, lock, processed_count, committed, quiet, names>>
    /\ UNCHANGED outerVars

\* requires_reindexing under the lock, which the end of the block releases
Check(w) ==
    /\ wk[w].pc = "check"
    /\ LET r == requires_reindexing(Index, files[w], wk[w].mtime) IN
          /\ docs' = r.docs
          /\ df' = r.df
          /\ wk' = [wk EXCEPT ![w].pc = IF r.ret THEN "parse" ELSE "done"]
    /\ lock' = "free"
    /\ UNCHANGED <<fault, legacy, last, result, disk, files, processed_count, committed, quiet, names>>
    /\ UNCHANGED outerVars

Parse_commits_anyway(w) ==
    /\ wk[w].pc = "parse"
    /\ wk' = [wk EXCEPT ![w] =
                 [@ EXCEPT !.pc = "commit_lock",
                           !.data = compute_search_data(disk[files[w]].text)]]
    /\ UNCHANGED <<indexVars, last, result, disk, files, lock, processed_count, committed, quiet, names>>
    /\ UNCHANGED outerVars

\* parse_entire_file_by_extension and compute_search_data, without the lock
Parse(w) ==
    /\ wk[w].pc = "parse"
    /\ wk' = [wk EXCEPT ![w] =
                 IF /\ parse_entire_file_by_extension(names[files[w]]) # "Err"
                    /\ disk[files[w]].state = "ok"
                 THEN [@ EXCEPT !.pc = "commit_lock",
                                !.data = compute_search_data(disk[files[w]].text)]
                 ELSE [@ EXCEPT !.pc = "done"]]
    /\ UNCHANGED <<indexVars, last, result, disk, files, lock, processed_count, committed, quiet, names>>
    /\ UNCHANGED outerVars

LockForCommit_unlocked(w) ==
    /\ wk[w].pc = "commit_lock"
    /\ wk' = [wk EXCEPT ![w].pc = "remove"]
    /\ UNCHANGED <<indexVars, last, result, disk, files, lock, processed_count, committed, quiet, names>>
    /\ UNCHANGED outerVars

\* model.lock().unwrap() before add_document_precomputed
LockForCommit(w) ==
    /\ wk[w].pc = "commit_lock"
    /\ lock = "free"
    /\ lock' = w
    /\ wk' = [wk EXCEPT ![w].pc = "remove"]
    /\ UNCHANGED <<indexVars, last, result, disk, files, processed_count, committed, quiet, names>>
    /\ UNCHANGED outerVars

\* the first statement of the commit: the old Document is unwound
CommitRemove(w) ==
    /\ wk[w].pc = "remove"
    /\ LET r == remove_document(Index, files[w]) IN
          /\ docs' = r.docs
          /\ df' = r.df
    /\ wk' = [wk EXCEPT ![w].pc = "insert"]
    /\ UNCHANGED <<fault, legacy, last, result, disk, files, lock, processed_count, committed, quiet, names>>
    /\ UNCHANGED outerVars

CommitInsert_keeps_lock(w) ==
    /\ wk[w].pc = "insert"
    /\ LET r == add_document_precomputed(Index, files[w], wk[w].mtime, wk[w].data) IN
          /\ docs' = r.docs
          /\ df' = r.df
          /\ committed' = [docs |-> r.docs, df |-> r.df]
    /\ legacy' = legacy \ {files[w]}
    /\ wk' = [wk EXCEPT ![w].pc = "count", ![w].committed = TRUE]
    /\ UNCHANGED <<fault, last, result, disk, files, lock, processed_count, quiet, names>>
    /\ UNCHANGED outerVars

\* the rest of the commit: the new Document is folded in; the lock is dropped
CommitInsert(w) ==
    /\ wk[w].pc = "insert"
    /\ LET r == add_document_precomputed(Index, files[w], wk[w].mtime, wk[w].data) IN
          /\ docs' = r.docs
          /\ df' = r.df
          /\ committed' = [docs |-> r.docs, df |-> r.df]
    /\ legacy' = legacy \ {files[w]}
    /\ lock' = "free"
    /\ wk' = [wk EXCEPT ![w].pc = "count", ![w].committed = TRUE]
    /\ UNCHANGED <<fault, last, result, disk, files, processed_count, quiet, names>>
    /\ UNCHANGED outerVars

Count_store(w) ==
    /\ wk[w].pc = "count"
    /\ processed_count' = 1
    /\ wk' = [wk EXCEPT ![w].pc = "done"]
    /\ UNCHANGED <<indexVars, last, result, lock, disk, files, committed, quiet, names>>
    /\ UNCHANGED outerVars

\* processed_count.fetch_add(1, Ordering::SeqCst)
Count(w) ==
    /\ wk[w].pc = "count"
    /\ processed_count' = processed_count + 1
    /\ wk' = [wk EXCEPT ![w].pc = "done"]
    /\ UNCHANGED <<indexVars, last, result, disk, files, lock, committed, quiet, names>>
    /\ UNCHANGED outerVars

\* a search takes the lock of the index ...
SearchLock ==
    /\ lock = "free"
    /\ lock' = "search"
    /\ UNCHANGED <<indexVars, last, result, disk, files, wk, processed_count, committed, quiet, names>>
    /\ UNCHANGED outerVars

\* ... reads it, and lets go
SearchUnlock ==
    /\ lock = "search"
    /\ lock' = "free"
    /\ UNCHANGED <<indexVars, last, result, disk, files, wk, processed_count, committed, quiet, names>>
    /\ UNCHANGED outerVars

AllDone == \A w \in Workers : wk[w].pc = "done"

\* the batch is complete; files change and the folder is indexed again
NextRun ==
    /\ AllDone
    /\ lock = "free"
    /\ disk' \in [Paths -> DiskFiles]
    /\ files' \in FileLists
    /\ wk' = [w \in Workers |-> Fresh]
    /\ processed_count' = 0
    /\ quiet' = (disk' = disk /\ files' = files)
    /\ UNCHANGED <<indexVars, last, result, lock, committed, names>>
    /\ UNCHANGED outerVars

Init ==
    /\ docs = EmptyMap
    /\ df = EmptyMap
    /\ fault = "none"
    /\ legacy = {}
    /\ last = NoCall
    /\ result = <<>>
    /\ disk \in [Paths -> DiskFiles]
    /\ files \in FileLists
    /\ names = PlainNames
    /\ wk = [w \in Workers |-> Fresh]
    /\ lock = "free"
    /\ processed_count = 0
    /\ committed = Index
    /\ quiet = FALSE
    /\ MatcherAtRest
    /\ index_file = NoIndexFile
    /\ TuiAtRest

Next ==
    \/ \E w \in Workers : Filter(w)
    \/ \E w \in Workers : Stat(w)
    \/ \E w \in Workers : LockForCheck(w)
    \/ \E w \in Workers : Check(w)
    \/ \E w \in Workers : Parse(w)
    \/ \E w \in Workers : LockForCommit(w)
    \/ \E w \in Workers : CommitRemove(w)
    \/ \E w \in Workers : CommitInsert(w)
    \/ \E w \in Workers : Count(w)
    \/ SearchLock
    \/ SearchUnlock
    \/ NextRun

Spec == Init /\ [][Next]_vars

\* Scheduling: a worker that can step does step; a worker waiting for the
\* Mutex gets it when it is free again and again; a search lets go of the
\* lock.  Nothing obliges a search or another run to start.
\* the steps a worker takes on its own, and its two takings of the lock
Proceed(w) ==
    Filter(w) \/ Stat(w) \/ Check(w) \/ Parse(w) \/ CommitRemove(w) \/ CommitInsert(w) \/ Count(w)

Acquire(w) == LockForCheck(w) \/ LockForCommit(w)

Fairness == \A w \in Workers : WF_vars(Proceed(w)) /\ SF_vars(Acquire(w))

\* the folder is indexed again and again while its files stay as they are
NextSteady ==
    \/ \E w \in Workers : Proceed(w) \/ Acquire(w)
    \/ SearchLock
    \/ SearchUnlock
    \/ NextRun /\ disk' = disk /\ files' = files

SpecSteady == Init /\ [][NextSteady]_vars

FairSteady == SpecSteady /\ Fairness /\ WF_vars(SearchUnlock)

(***************************************************************************)
(* The matcher used by threads that call init and by callers of            *)
(* is_ignored, over an index and a pipeline at rest.                       *)
(***************************************************************************)
(***************************************************************************)
(* A run during which the files are written: a file's modification time    *)
(* moves forward while the workers are at work.                            *)
(***************************************************************************)
Touch(p, t) ==
    /\ ~ AllDone
    /\ disk[p].state = "ok"
    /\ t > disk[p].mtime
    /\ disk' = [disk EXCEPT ![p].mtime = t]
    /\ UNCHANGED <<indexVars, last, result, files, wk, lock, processed_count, committed, quiet, names>>
    /\ UNCHANGED outerVars

NextTouch ==
    \/ \E w \in Workers : Proceed(w) \/ Acquire(w)
    \/ \E p \in Paths, t \in Times : Touch(p, t)

SpecTouch == Init /\ [][NextTouch]_vars

(***************************************************************************)
(* The pipeline over files of every kind of name, some of them ignored:    *)
(* ignore_rules::init has run, every file is there and readable.           *)
(***************************************************************************)
MatcherSet(g) ==
    /\ IGNORER = [state |-> "set", root |-> "r1", ig |-> g]
    /\ callers = [t \in Threads |->
                     IF t = "t1" THEN [pc |-> "returned", root |-> "r1"]
                     ELSE [pc |-> "idle", root |-> "r1"]]
    /\ khojignore = [r \in Roots |->
                        IF r = "r1" THEN [present |-> TRUE, globs |-> g, builds |-> TRUE]
                        ELSE NoIgnoreFile]

ReadableFiles == {[state |-> "ok", mtime |-> t, text |-> Join(<<"a">>)] : t \in Times}

InitFilter ==
    /\ docs = EmptyMap
    /\ df = EmptyMap
    /\ fault = "none"
    /\ legacy = {}
    /\ last = NoCall
    /\ result = <<>>
    /\ disk \in [Paths -> ReadableFiles]
    /\ files \in FileLists
    /\ names \in [Paths -> FileNames]
    /\ wk = [w \in Workers |-> Fresh]
    /\ lock = "free"
    /\ processed_count = 0
    /\ committed = Index
    /\ quiet = FALSE
    /\ \E g \in SUBSET (Paths \X {FALSE}) : MatcherSet(g)
    /\ index_file = NoIndexFile
    /\ TuiAtRest

\* the files are touched and the folder is indexed again
NextRunFilter ==
    /\ NextRun
    /\ disk' \in [Paths -> ReadableFiles]

NextFilter ==
    \/ \E w \in Workers : Proceed(w) \/ Acquire(w)
    \/ NextRunFilter

SpecFilter == InitFilter /\ [][NextFilter]_vars

(***************************************************************************)
(* The search of the terminal UI (tui.rs).  A SearchResult is kept without *)
(* its preview line: text for display, read from the file after the        *)
(* results are ordered.                                                    *)
(***************************************************************************)
\* str::split_whitespace
RECURSIVE SplitFrom(_, _, _, _)
SplitFrom(chars, i, run_, acc) ==
    LET flushed == IF run_ = <<>> THEN acc ELSE Append(acc, run_) IN
    IF i > Len(chars) THEN flushed
    ELSE IF chars[i] = " " THEN SplitFrom(chars, i + 1, <<>>, flushed)
    ELSE SplitFrom(chars, i + 1, Append(run_, chars[i]), flushed)

split_whitespace(chars) == SplitFrom(chars, 1, <<>>, <<>>)

\* str::to_lowercase on the characters of the model
to_lowercase(chars) == [i \in DOMAIN chars |-> AsciiLower(chars[i])]

\* str::contains
contains(hay, needle) ==
    \E k \in 0 .. Len(hay) - Len(needle) : SubSeq(hay, k + 1, k + Len(needle)) = needle

\* i64::MAX, as far as the integers of the model reach
I64Max == UsizeMax

\* f32 as i64: towards zero, saturating
as_i64(x) ==
    CASE x.k = "inf" -> I64Max
      [] x.k = "ninf" -> 0 - I64Max - 1
      [] x.k = "nan" -> 0
      [] OTHER -> IF x.n >= 0 THEN x.n \div x.d ELSE 0 - ((0 - x.n) \div x.d)

\* the score a file name gets from the words of the query
filename_score(filename_lower, query_words) ==
    LET hit(i) == IF contains(filename_lower, query_words[i])
                  THEN (IF filename_lower = query_words[i] THEN 100 ELSE 50)
                  ELSE 0
        sum[i \in 0 .. Len(query_words)] == IF i = 0 THEN 0 ELSE sum[i - 1] + hit(i)
    IN  sum[Len(query_words)]

RECURSIVE add_filename_search_results_fast(_, _, _)
add_filename_search_results_fast(results, cache, query_words) ==
    IF cache = <<>> THEN results
    ELSE LET entry == cache[1]
             processed_paths == {results[i].file_path : i \in DOMAIN results}
             score == filename_score(entry[2], query_words)
             next == IF entry[1] \notin processed_paths /\ score > 0
                     THEN Append(results, [file_path |-> entry[1], score |-> score,
                                           is_filename_match |-> TRUE])
                     ELSE results
         IN  add_filename_search_results_fast(next, Tail(cache), query_words)

\* results.sort_by(|a, b| b.score.cmp(&a.score)): stable, descending
RECURSIVE SortByScore(_)
SortByScore(s) ==
    IF s = <<>> THEN <<>>
    ELSE LET head == SortByScore(SubSeq(s, 1, Len(s) - 1))
             e == s[Len(s)]
             k == Cardinality({i \in DOMAIN head : head[i].score >= e.score})
         IN  SubSeq(head, 1, k) \o <<e>> \o SubSeq(head, k + 1, Len(head))

\* Index::search
SearchFrom(m, cache, query, order) ==
    IF Len(query) = 0 \/ Len(query) < 2 THEN <<>>
    ELSE LET query_words == split_whitespace(to_lowercase(query))
             content == content_search_results(m, query, order)
             results == [i \in DOMAIN content |->
                            [file_path |-> content[i].path,
                             score |-> as_i64(Mul(content[i].rank, Fin(1000, 1))),
                             is_filename_match |-> FALSE]]
         IN  SortByScore(add_filename_search_results_fast(results, cache, query_words))

(***************************************************************************)
(* The indexes and the file names of the folder a session is run on.       *)
(***************************************************************************)
TuiCorpora ==
    {<<<<"p1", Join(<<"a">>)>>>>,
     <<<<"p1", Join(<<"a">>)>>, <<"p2", Join(<<"a", "b">>)>>>>}

\* the names the files of the folder have
TuiNames == {PlainName, <<"B", ".", "m", "d">>}

\* Index::build_filename_cache: every file of the folder, in the order
\* read_dir gives them
FilenameCaches ==
    {[i \in DOMAIN order |-> <<order[i], to_lowercase(n[order[i]])>>] :
        order \in IterOrders(Paths),
        n \in {f \in [Paths -> TuiNames] : f["p1"] = PlainName}}

\* the indexes a session can be given
TuiIndexes == {BuildCorpus(c) : c \in TuiCorpora}

\* what Index::search can be called with in a session: an index, the file
\* name cache, a query, and the order the documents are iterated in
SearchInputs ==
    {x \in TuiIndexes \X FilenameCaches \X TuiQueries
              \X UNION {IterOrders(S) : S \in SUBSET Paths} :
        x[4] \in IterOrders(DOMAIN x[1].docs)}

\* Index::search on each of them, worked out once and kept as a table (the
\* @@ makes the table explicit)
SearchTable ==
    [x \in SearchInputs |-> SearchFrom(x[1], x[2], x[3], x[4])] @@ EmptyMap

Index_search(m, cache, query, order) == SearchTable[<<m, cache, query, order>>]

(***************************************************************************)
(* The handlers of the App and the loop of run_app.                        *)
(***************************************************************************)
on_key(a, c) ==
    [a EXCEPT !.query = Append(@, c), !.last_input_time = "Some", !.needs_search = TRUE]

\* String::pop leaves the empty string empty
on_backspace(a) ==
    [a EXCEPT !.query = IF @ = <<>> THEN <<>> ELSE SubSeq(@, 1, Len(@) - 1),
              !.last_input_time = "Some", !.needs_search = TRUE]

next_result_stops_at_end(a) ==
    IF a.results = <<>> THEN a
    ELSE [a EXCEPT !.results_state =
             IF @.some THEN Selected(@.i + 1) ELSE Selected(0)]

next_result(a) ==
    IF a.results = <<>> THEN a
    ELSE [a EXCEPT !.results_state =
             IF @.some THEN Selected((@.i + 1) % Len(a.results)) ELSE Selected(0)]

previous_result(a) ==
    IF a.results = <<>> THEN a
    ELSE [a EXCEPT !.results_state =
             IF @.some
             THEN (IF @.i = 0 THEN Selected(Len(a.results) - 1) ELSE Selected(@.i - 1))
             ELSE Selected(0)]

update_search_results_forgets_query(a, m, order) ==
    IF a.query = a.last_search_query THEN a
    ELSE LET found == Index_search(m, a.filename_cache, a.query, order) IN
         [a EXCEPT !.results = found,
                   !.results_state = IF found # <<>> THEN Selected(0) ELSE NoSelection]

update_search_results(a, m, order) ==
    IF a.query = a.last_search_query THEN a
    ELSE LET found == Index_search(m, a.filename_cache, a.query, order) IN
         [a EXCEPT !.last_search_query = a.query,
                   !.results = found,
                   !.results_state = IF found # <<>> THEN Selected(0) ELSE NoSelection]

\* the debounced search at the end of an iteration of the loop; due says
\* that 90 ms have passed since the last input
Debounced(a, due, m, order) ==
    IF a.needs_search /\ a.last_input_time = "Some" /\ due
    THEN update_search_results([a EXCEPT !.needs_search = FALSE], m, order)
    ELSE a

\* One iteration of the loop of run_app for each kind of key event.
PressChar(c, due, order) ==
    /\ loop.state = "running"
    /\ loop.events_left > 0
    /\ app' = Debounced(on_key(app, c), due, Index, order)
    /\ loop' = [loop EXCEPT !.key = "Char", !.events_left = @ - 1]
    /\ UNCHANGED <<indexVars, last, result, pipeVars, ignoreVars, index_file>>

PressBackspace(due, order) ==
    /\ loop.state = "running"
    /\ loop.events_left > 0
    /\ app' = Debounced(on_backspace(app), due, Index, order)
    /\ loop' = [loop EXCEPT !.key = "Backspace", !.events_left = @ - 1]
    /\ UNCHANGED <<indexVars, last, result, pipeVars, ignoreVars, index_file>>

PressDown(due, order) ==
    /\ loop.state = "running"
    /\ loop.events_left > 0
    /\ app' = Debounced(next_result(app), due, Index, order)
    /\ loop' = [loop EXCEPT !.key = "Down", !.events_left = @ - 1]
    /\ UNCHANGED <<indexVars, last, result, pipeVars, ignoreVars, index_file>>

PressUp(due, order) ==
    /\ loop.state = "running"
    /\ loop.events_left > 0
    /\ app' = Debounced(previous_result(app), due, Index, order)
    /\ loop' = [loop EXCEPT !.key = "Up", !.events_left = @ - 1]
    /\ UNCHANGED <<indexVars, last, result, pipeVars, ignoreVars, index_file>>

PressEsc ==
    /\ loop.state = "running"
    /\ loop.events_left > 0
    /\ loop' = [state |-> "Quit", key |-> "Esc", events_left |-> loop.events_left - 1]
    /\ UNCHANGED <<indexVars, last, result, pipeVars, ignoreVars, index_file, app>>

PressEnter(due, order) ==
    /\ loop.state = "running"
    /\ loop.events_left > 0
    /\ IF app.results_state.some /\ app.results_state.i < Len(app.results)
       THEN /\ loop' = [state |-> "Open", key |-> "Enter",
                         events_left |-> loop.events_left - 1]
            /\ UNCHANGED app
       ELSE /\ loop' = [loop EXCEPT !.key = "Enter", !.events_left = @ - 1]
            /\ app' = Debounced(app, due, Index, order)
    /\ UNCHANGED <<indexVars, last, result, pipeVars, ignoreVars, index_file>>

\* an iteration in which poll times out
PollTimeout(due, order) ==
    /\ loop.state = "running"
    /\ app' = Debounced(app, due, Index, order)
    /\ loop' = [loop EXCEPT !.key = "None"]
    /\ UNCHANGED <<indexVars, last, result, pipeVars, ignoreVars, index_file>>

(***************************************************************************)
(* A session of the terminal UI on an index built from the files of the    *)
(* folder, with the file names read from the folder in either order.       *)
(***************************************************************************)
InitTui ==
    /\ \E c \in TuiCorpora :
          LET m == BuildCorpus(c) IN docs = m.docs /\ df = m.df
    /\ legacy = {}
    /\ fault = "none"
    /\ last = NoCall
    /\ result = <<>>
    /\ PipelineAtRest
    /\ MatcherAtRest
    /\ index_file = NoIndexFile
    /\ \E cache \in FilenameCaches : app = NewApp(cache)
    /\ loop = [state |-> "running", key |-> "None", events_left |-> MaxKeys]

NextTui ==
    \/ \E c \in KeyChars, due \in BOOLEAN, order \in IterOrders(DOMAIN docs) :
          PressChar(c, due, order)
    \/ \E due \in BOOLEAN, order \in IterOrders(DOMAIN docs) : PressBackspace(due, order)
    \/ \E due \in BOOLEAN, order \in IterOrders(DOMAIN docs) : PressDown(due, order)
    \/ \E due \in BOOLEAN, order \in IterOrders(DOMAIN docs) : PressUp(due, order)
    \/ PressEsc
    \/ \E due \in BOOLEAN, order \in IterOrders(DOMAIN docs) : PressEnter(due, order)
    \/ \E due \in BOOLEAN, order \in IterOrders(DOMAIN docs) : PollTimeout(due, order)

SpecTui == InitTui /\ [][NextTui]_vars

\* Time passes: with a search pending, an iteration comes in which poll has
\* timed out and 90 ms have passed since the last input.
SearchDue == \E order \in IterOrders(DOMAIN docs) : PollTimeout(TRUE, order)

FairTui == SpecTui /\ WF_vars(SearchDue)

InitIgnore ==
    /\ docs = EmptyMap
    /\ df = EmptyMap
    /\ fault = "none"
    /\ legacy = {}
    /\ last = NoCall
    /\ result = <<>>
    /\ PipelineAtRest
    /\ IGNORER = Unset
    /\ callers = [t \in Threads |-> [pc |-> "idle", root |-> "r1"]]
    /\ khojignore \in [Roots -> IgnoreFiles]
    /\ index_file = NoIndexFile
    /\ TuiAtRest

NextIgnore ==
    \/ \E t \in Threads, root \in Roots : CallInit(t, root)
    \/ \E t \in Threads : GetOrInit(t)
    \/ \E t \in Threads : Build(t)
    \/ \E pr \in Probes : IsIgnored(pr[1], pr[2])

SpecIgnore == InitIgnore /\ [][NextIgnore]_vars

(***************************************************************************)
(* Properties.                                                             *)
(***************************************************************************)
DfOf(dfmap, t) == IF t \in DOMAIN dfmap THEN dfmap[t] ELSE 0

Containing(docmap, t) == {p \in DOMAIN docmap : t \in DOMAIN docmap[p].tf}

CorpusInvariant(docmap, dfmap) ==
    \A t \in Words \cup DOMAIN dfmap :
        DfOf(dfmap, t) = Cardinality(Containing(docmap, t))

\* C1: starting from the empty index, after any sequence of add_document
\* calls, document_frequency[t] (0 when absent) is the number of Documents
\* whose term_frequency contains t, for every token t.
C1_DfCountsDocuments == CorpusInvariant(docs, df)

\* a Document has been replaced, one token has left the corpus and another
\* is in both Documents
C1_Witness ==
    /\ last.op = "add_document" /\ last.existed
    /\ \E t \in DOMAIN df : df[t] = 0
    /\ \E t \in DOMAIN df : df[t] = 2

\* C2: replacing a Document never takes a count below zero: no abort and
\* no count wrapped around, whatever df the index was loaded with.
C2_RemovalFlooredAtZero ==
    /\ fault = "none"
    /\ \A t \in DOMAIN df : df[t] # UsizeMax

MidCommit == \E w \in Workers : wk[w].pc = "insert"

\* both workers were handed the same file and both committed it in this run
Raced == files["w1"] = files["w2"] /\ processed_count = 2

\* C3: two workers that both find the same path stale before either
\* commits, and then both commit, leave document_frequency[t] equal to the
\* number of Documents containing t, and one Document for the path: the
\* one a worker committed.
C3_RacingCommitsKeepCorpus ==
    ~MidCommit =>
        /\ CorpusInvariant(docs, df)
        /\ Raced =>
              /\ files["w1"] \in DOMAIN docs
              /\ \E w \in Workers :
                    docs[files["w1"]] =
                        [count |-> wk[w].data.count, tf |-> wk[w].data.tf,
                         last_modified |-> wk[w].mtime,
                         positions |-> wk[w].data.positions]

\* both commits of a race are in, beside the Document of another path
\* that shares a token
C3_Witness ==
    /\ Raced /\ AllDone
    /\ DOMAIN docs = Paths
    /\ "a" \in DOMAIN df /\ df["a"] = 2

\* C4: what a search reads under the lock is the index as a finished
\* add_document left it, never the index between the removal of the old
\* Document and the insertion of the new one.
C4_SearchSeesWholeCommits == lock = "search" => Index = committed

\* a search holds the lock while a worker waits to replace a Document
C4_Witness ==
    /\ lock = "search"
    /\ \E w \in Workers : wk[w].pc = "commit_lock" /\ files[w] \in DOMAIN docs

\* C7: a file whose mtime equals the stored last_modified is not committed
\* again: the worker is done after its check, with docs,
\* document_frequency and the count as they were; and a run that repeats
\* the previous one over unchanged files changes none of them.
C7_UnchangedFileNotReindexed ==
    [][/\ \A w \in Workers :
             (/\ wk[w].pc = "check" /\ wk'[w].pc # "check"
              /\ files[w] \in DOMAIN docs
              /\ docs[files[w]].last_modified = wk[w].mtime)
             => (/\ wk'[w].pc = "done"
                 /\ docs' = docs /\ df' = df
                 /\ processed_count' = processed_count)
       /\ quiet => (docs' = docs /\ df' = df /\ processed_count' = processed_count)
      ]_vars

\* the repeated run is over: the file was there, indexed, and left alone
C7_Witness ==
    /\ quiet /\ AllDone /\ processed_count = 0
    /\ \A w \in Workers :
          /\ disk[files[w]].state = "ok"
          /\ files[w] \in DOMAIN docs
          /\ docs[files[w]].last_modified = disk[files[w]].mtime
          /\ docs[files[w]].count = 2

\* C5: requires_reindexing returns true exactly when docs has no Document
\* for the path or the stored last_modified is strictly earlier than mtime.
C5_StaleExactly ==
    [][last'.op = "requires_reindexing" =>
          (last'.ret <=> (\/ last'.path \notin DOMAIN docs
                         \/ docs[last'.path].last_modified < last'.mtime))]_vars

\* asked with the stored timestamp itself, the answer was false
C5_Witness ==
    /\ last.op = "requires_reindexing" /\ ~last.ret
    /\ last.path \in DOMAIN docs
    /\ docs[last.path].last_modified = last.mtime

\* C6: requires_reindexing leaves docs and document_frequency as they were.
C6_NoSideEffect ==
    [][last'.op = "requires_reindexing" => (docs' = docs /\ df' = df)]_vars

\* a stale Document was asked about and is still there
C6_Witness ==
    /\ last.op = "requires_reindexing" /\ last.ret
    /\ last.path \in DOMAIN docs
    /\ docs[last.path].count > 0

IsStatisticsOf(doc, tokens, mtime) ==
    /\ doc.count = Len(tokens)
    /\ doc.last_modified = mtime
    /\ DOMAIN doc.tf = Range(tokens)
    /\ DOMAIN doc.positions = Range(tokens)
    /\ \A t \in Range(tokens) :
          /\ doc.tf[t] = Cardinality({i \in DOMAIN tokens : tokens[i] = t})
          /\ Range(doc.positions[t]) = {i - 1 : i \in {j \in DOMAIN tokens : tokens[j] = t}}

\* C8: add_document on a path that has a Document replaces it completely:
\* docs[path] holds the statistics of the new content alone,
\* document_frequency changes only for tokens in exactly one of the old and
\* the new token set, and every other Document is unchanged.
C8_ReplacesOnlyThatDocument ==
    [][(last'.op = "add_document" /\ last'.path \in DOMAIN docs) =>
          \A tokens \in {Lexer(last'.text)} :
             LET p == last'.path
                 old == DOMAIN docs[p].tf
                 new == Range(tokens)
             IN /\ DOMAIN docs' = DOMAIN docs
                /\ IsStatisticsOf(docs'[p], tokens, last'.mtime)
                /\ \A t \in Words \cup DOMAIN df \cup DOMAIN df' :
                      DfOf(df', t) # DfOf(df, t) => t \in (old \ new) \cup (new \ old)
                /\ \A q \in DOMAIN docs \ {p} : docs'[q] = docs[q]]_vars

\* a Document was replaced by one without one of its tokens, beside another
C8_Witness ==
    /\ last.op = "add_document" /\ last.existed
    /\ DOMAIN docs = Paths
    /\ \E t \in DOMAIN df : df[t] > 0 /\ t \notin DOMAIN docs[last.path].tf
    /\ docs[last.path].count > 0

PositionsMatch(doc) ==
    \A t \in DOMAIN doc.tf :
        /\ t \in DOMAIN doc.positions
        /\ Len(doc.positions[t]) = doc.tf[t]
        /\ \A i, j \in DOMAIN doc.positions[t] :
              i < j => doc.positions[t][i] < doc.positions[t][j]

\* C9 as claimed: for every Document of the index, loaded ones included,
\* positions[t] holds exactly term_frequency[t] strictly increasing offsets.
C9_PositionsMatchEverywhere == \A p \in DOMAIN docs : PositionsMatch(docs[p])

\* C9 as amended: that holds for every Document built by add_document and
\* every Document loaded with its positions; a Document loaded from a
\* snapshot without positions keeps an empty positions map until replaced.
C9_PositionsMatchUnlessDefaulted ==
    \A p \in DOMAIN docs :
        IF p \in legacy THEN docs[p].positions = EmptyMap
        ELSE PositionsMatch(docs[p])

\* a Document with a repeated token built by add_document beside one that
\* was loaded without positions
C9_Witness ==
    /\ last.op = "add_document" /\ fault = "none"
    /\ last.path \in DOMAIN docs
    /\ \E t \in DOMAIN docs[last.path].tf : docs[last.path].tf[t] = 2
    /\ \E q \in legacy : docs[q].count > 0

\* C10: the sequence search_query returns is ordered by non-increasing
\* rank: no entry is followed by an entry of strictly higher rank.
C10_ResultNonIncreasing ==
    \A i \in 1 .. Len(result) - 1 : ~ Less(result[i].rank, result[i + 1].rank)

\* a search that returned two Documents of different rank, the higher one
\* boosted for the phrase
C10_Witness ==
    /\ last.op = "search"
    /\ Len(result) = 2
    /\ Less(result[2].rank, result[1].rank)
    /\ Len(Lexer(last.text)) > 1
    /\ phrase_in_doc(Lexer(last.text), docs[result[1].path])

\* C11: no entry returned by search_query carries a non-finite rank: NaN,
\* +infinity and -infinity are all excluded from the result.
C11_NoNonFiniteScore ==
    \A i \in DOMAIN result : result[i].rank.k = "fin"

\* C12: the sequence search_query returns is a function of the Documents,
\* df and the query alone: every iteration order of the map of Documents
\* gives the sequence that was returned.
C12_OrderIndependentOfIteration ==
    last.op = "search" =>
        \A o \in IterOrders(DOMAIN docs) : result = search_query(Index, last.text, o)

\* C13: at the search entry point of the UI the empty query and every
\* query made of blanks only give an empty content-search result.
C13_BlankQueryEmptyResult ==
    (last.op = "ui_search" /\ \A i \in DOMAIN last.text : last.text[i] = " ")
        => result = <<>>

\* the places of a worker up to the extraction of its file
BeforeCommit == {"start", "stat", "check_lock", "check", "parse", "done"}

C15_RunCompletes ==
    /\ \A w \in Workers : (wk[w].pc # "done") ~> (wk[w].pc = "done")
    /\ [][(\E w \in Workers : wk[w].pc = "done" /\ wk'[w].pc # "done") => AllDone]_vars

\* a worker waits for the lock to commit while the other holds it
C15_Witness ==
    /\ wk["w1"].pc = "commit_lock"
    /\ lock = "w2"
    /\ wk["w2"].pc = "insert"

\* C16: the count of a run is the number of commits made in it: at every
\* moment it is the number of workers that committed and have counted, so
\* when the run is over each commit has added exactly 1 and each skipped
\* file 0.
C16_CountIsCommits ==
    /\ processed_count =
          Cardinality({w \in Workers : wk[w].committed /\ wk[w].pc = "done"})
    /\ \A w \in Workers : wk[w].pc = "count" => wk[w].committed

\* a run is over in which one worker committed and the other skipped a
\* file that was already current
C16_Witness ==
    /\ AllDone
    /\ processed_count = 1
    /\ wk["w1"].committed /\ ~ wk["w2"].committed
    /\ disk[files["w2"]].state = "ok"

\* C17: when a run is over, every file of the list that is there and
\* extracts has a Document, and requires_reindexing for its mtime is false:
\* the stored last_modified is not earlier than the mtime of the file.
C17_UpToDateAfterRun ==
    AllDone =>
        \A w \in Workers :
            disk[files[w]].state = "ok" =>
                /\ files[w] \in DOMAIN docs
                /\ ~ (docs[files[w]].last_modified < disk[files[w]].mtime)

\* a run is over that replaced the Document of a file that had changed
C17_Witness ==
    /\ AllDone
    /\ \E w \in Workers :
          /\ wk[w].committed
          /\ disk[files[w]].mtime = MaxTime
          /\ docs[files[w]].last_modified = MaxTime
          /\ docs[files[w]].count = 2
          /\ DfOf(df, "b") = 1

\* C18: the pattern set is built at most once: one thread at a time at
\* most runs the closure, the first to find the cell empty, and once the
\* cell is full no init call, with any root and from any thread, changes
\* the pattern set in it.
C18_InitAtMostOnce ==
    [][/\ Cardinality({t \in Threads : callers'[t].pc = "build"}) <= 1
       /\ IGNORER.state = "set" => IGNORER' = IGNORER
       /\ IGNORER.state = "running" =>
             /\ IGNORER'.root = IGNORER.root
             /\ IGNORER'.state = "set" => IGNORER'.ig = build_ignorer(IGNORER.root)]_vars

\* the cell holds what the first caller built, and a later init call with
\* another root, whose own file gives other patterns, has returned
C18_Witness ==
    /\ IGNORER.state = "set"
    /\ \E t \in Threads :
          /\ callers[t].pc = "returned"
          /\ callers[t].root # IGNORER.root
          /\ build_ignorer(callers[t].root) # IGNORER.ig

\* C19: is_ignored fails open: called while the cell is not full, or when
\* it was filled after the build of the pattern set failed, it returns
\* false for every path and is_dir.
C19_FailsOpen ==
    [][(/\ last'.op = "is_ignored"
        /\ \/ IGNORER.state # "set"
           \/ ~ khojignore[IGNORER.root].builds)
          => last'.ret = FALSE]_vars

\* is_ignored returned false for a path that the file's lines match, after
\* an init whose build failed
C19_Witness ==
    /\ last.op = "is_ignored"
    /\ IGNORER.state = "set"
    /\ ~ khojignore[IGNORER.root].builds
    /\ <<last.path, last.is_dir>> \in khojignore[IGNORER.root].globs
    /\ last.ret = FALSE

\* C20: an index saved as a snapshot and loaded back answers every query
\* with the identical ordered sequence of (path, rank) it gave before.
C20_RoundTripSameResults ==
    [][(/\ index_file.state = "loaded"
        /\ last.op = "search"
        /\ last'.op = "search"
        /\ last'.text = last.text) => result' = result]_vars

\* the entry of the result for a path, and where it stands
RankOf(p) == (CHOOSE i \in DOMAIN result : result[i].path = p)

Returned(p) == \E i \in DOMAIN result : result[i].path = p

\* Documents p and q hold token a equally often among equally many tokens,
\* and p alone holds token b as well
CoveragePair(p, q, a, b) ==
    /\ a \in DOMAIN docs[p].tf
    /\ a \in DOMAIN docs[q].tf
    /\ docs[p].tf[a] = docs[q].tf[a]
    /\ docs[p].count = docs[q].count
    /\ b \in DOMAIN docs[p].tf
    /\ b \notin DOMAIN docs[q].tf

\* C21: coverage law.  For a query of two different tokens a and b, of two
\* Documents that hold a equally often among equally many tokens, the one
\* that also holds b is returned with a strictly higher rank than the one
\* that does not, and stands before it in the result.
C21_CoverageLaw ==
    last.op = "search" =>
        LET tokens == Lexer(last.text) IN
        (Len(tokens) = 2 /\ tokens[1] # tokens[2]) =>
            \A p \in DOMAIN docs, q \in DOMAIN docs :
                CoveragePair(p, q, tokens[1], tokens[2]) =>
                    /\ Returned(p)
                    /\ Returned(q)
                    /\ RankOf(p) < RankOf(q)
                    /\ Less(result[RankOf(q)].rank, result[RankOf(p)].rank)

\* such a query on three Documents, where the Document holding only a has a
\* rank above 0 (a is missing from the third Document)
C21_Witness ==
    /\ last.op = "search"
    /\ Len(Lexer(last.text)) = 2
    /\ \E p \in DOMAIN docs, q \in DOMAIN docs :
          /\ CoveragePair(p, q, Lexer(last.text)[1], Lexer(last.text)[2])
          /\ Returned(q)
          /\ Less(Fin(0, 1), result[RankOf(q)].rank)

\* some occurrence of x in the Document is followed at once by one of y
Adjacent(doc, x, y) ==
    \E i \in Range(doc.positions[x]) : i + 1 \in Range(doc.positions[y])

\* Documents p and q hold as many tokens, x as often and y as often; in p
\* some x is followed at once by y, in q none is
PhrasePair(p, q, x, y) ==
    /\ docs[p].count = docs[q].count
    /\ {x, y} \subseteq DOMAIN docs[p].tf \cap DOMAIN docs[q].tf
    /\ docs[p].tf[x] = docs[q].tf[x]
    /\ docs[p].tf[y] = docs[q].tf[y]
    /\ Adjacent(docs[p], x, y)
    /\ ~ Adjacent(docs[q], x, y)

\* C22: phrase law.  For a query of two tokens, of two Documents with equal
\* term_count and equal counts of both tokens, the one that holds the
\* tokens side by side in query order is returned with exactly 2 times the
\* rank of the one that does not.
C22_PhraseLaw ==
    last.op = "search" =>
        LET tokens == Lexer(last.text) IN
        Len(tokens) = 2 =>
            \A p \in DOMAIN docs, q \in DOMAIN docs :
                PhrasePair(p, q, tokens[1], tokens[2]) =>
                    /\ Returned(p)
                    /\ Returned(q)
                    /\ LET rp == result[RankOf(p)].rank
                           rq == result[RankOf(q)].rank
                       IN  /\ rp.k = "fin"
                           /\ rq.k = "fin"
                           /\ rp.n * rq.d = 2 * rq.n * rp.d

\* such a pair with ranks above 0, the tokens of the second Document kept
\* apart by another token
C22_Witness ==
    /\ last.op = "search"
    /\ Len(Lexer(last.text)) = 2
    /\ \E p \in DOMAIN docs, q \in DOMAIN docs :
          LET x == Lexer(last.text)[1]
              y == Lexer(last.text)[2]
          IN  /\ x # y
              /\ PhrasePair(p, q, x, y)
              /\ ~ Adjacent(docs[q], y, x)
              /\ Returned(q)
              /\ Less(Fin(0, 1), result[RankOf(q)].rank)

\* the query of the scenario was made on the corpus of the scenario
ScenarioQueried ==
    /\ last.op = "search"
    /\ last.text = QuickFox
    /\ DOMAIN docs = RankPaths
    /\ Index = BuildCorpus(Scenario)

\* C23: end-to-end ranking.  On the index holding doc1 = "the quick brown
\* fox" (p1), doc2 = "the lazy dog" (p2) and doc3 = "quick fox quick fox"
\* (p3), the query "quick fox" returns doc3 before doc1, doc1 before doc2
\* where doc2 is returned, and doc2 is absent or has rank 0.
C23_EndToEndRanking ==
    ScenarioQueried =>
        /\ Returned("p3")
        /\ Returned("p1")
        /\ RankOf("p3") < RankOf("p1")
        /\ Returned("p2") =>
              /\ RankOf("p1") < RankOf("p2")
              /\ result[RankOf("p2")].rank = Fin(0, 1)

\* the scenario's query answered: doc3, boosted for the phrase, then doc1,
\* then doc2 with rank 0
C23_Witness ==
    /\ ScenarioQueried
    /\ Len(result) = 3
    /\ result[1].path = "p3"
    /\ phrase_in_doc(Lexer(QuickFox), docs["p3"])
    /\ ~ phrase_in_doc(Lexer(QuickFox), docs["p1"])
    /\ Less(result[2].rank, result[1].rank)
    /\ Less(result[3].rank, result[2].rank)
    /\ "lazi" \in DOMAIN docs["p2"].tf

\* C24: a query token whose document_frequency entry is absent or has
\* dropped to 0 is given the divisor 1, so it makes no rank non-finite:
\* every Document that holds tokens is returned with a finite rank.
C24_IdfDivisorAtLeastOne ==
    last.op = "search" =>
        \A p \in DOMAIN docs :
            docs[p].count > 0 =>
                /\ Returned(p)
                /\ result[RankOf(p)].rank.k = "fin"

\* C25: a Document with term_count 0 has tf 0 for every token: it is
\* returned with rank 0 for every query.
C25_EmptyDocumentScoresZero ==
    last.op = "search" =>
        \A p \in DOMAIN docs :
            docs[p].count = 0 =>
                /\ Returned(p)
                /\ result[RankOf(p)].rank = Fin(0, 1)

\* how many of the distinct tokens of the query the Document holds
PresentIn(tokens, doc) == Cardinality(Range(tokens) \cap DOMAIN doc.tf)

\* the multiplier the specification gives a query with n distinct tokens
CoverageMultiplier(present, n) ==
    IF n <= 1 THEN Fin(1, 1)
    ELSE IF present = n THEN Fin(3, 2)
    ELSE Fin(present * present, n * n)

\* C26: the coverage multiplier is applied exactly when the query has more
\* than one distinct token: every returned rank is the tf-idf sum times 1.5
\* when the Document holds every distinct token, times (present/distinct)^2
\* when it does not, and times nothing for one distinct token (repeated or
\* not); the phrase boost comes on top.
C26_CoverageMultiplier ==
    last.op = "search" =>
        \A i \in DOMAIN result :
            LET tokens == Lexer(last.text)
                doc == docs[result[i].path]
                covered == Mul(BaseRank(tokens, doc, Index),
                               CoverageMultiplier(PresentIn(tokens, doc),
                                                  Cardinality(Range(tokens))))
            IN  result[i].rank =
                    IF Len(tokens) > 1 /\ phrase_in_doc(tokens, doc)
                    THEN Mul(covered, Fin(2, 1)) ELSE covered

\* a Document holding one of two distinct query tokens, returned with a rank
\* above 0
C26_Witness ==
    /\ last.op = "search"
    /\ Cardinality(Range(Lexer(last.text))) = 2
    /\ \E i \in DOMAIN result :
          /\ PresentIn(Lexer(last.text), docs[result[i].path]) = 1
          /\ Less(Fin(0, 1), result[i].rank)

\* the tokens of a Document, read off its positions
TokensOf(doc) ==
    [i \in 1 .. doc.count |->
        CHOOSE t \in DOMAIN doc.positions : (i - 1) \in Range(doc.positions[t])]

\* the query's tokens stand in the Document one after the other from some offset
Occurs(q, toks) ==
    \E s \in 0 .. Len(toks) - Len(q) : \A i \in 1 .. Len(q) : toks[s + i] = q[i]

\* C27: phrase detection is exact.  For a Document built by add_document
\* and a query of two or more tokens, phrase_in_doc is true if and only if
\* the query's tokens stand in the Document one after the other from some
\* offset; the rank is doubled exactly in that case, and never for a query
\* of one token.
C27_PhraseExact ==
    last.op = "search" =>
        \A p \in DOMAIN docs :
            LET q == Lexer(last.text)
                doc == docs[p]
                found == Len(q) >= 2 /\ Occurs(q, TokensOf(doc))
                n == Cardinality(Range(q))
                base == BaseRank(q, doc, Index)
                covered == IF n > 1
                           THEN Mul(base, coverage_factor(PresentIn(q, doc), n))
                           ELSE base
            IN  /\ Len(q) >= 2 => (phrase_in_doc(q, doc) <=> found)
                /\ Returned(p) =>
                      result[RankOf(p)].rank =
                          IF found THEN Mul(covered, Fin(2, 1)) ELSE covered

\* a query of two tokens found in a Document, though not at the first
\* occurrence of its first token, and the rank above 0
C27_Witness ==
    /\ last.op = "search"
    /\ \E p \in DOMAIN docs :
          LET q == Lexer(last.text)
              toks == TokensOf(docs[p])
          IN  /\ Len(q) = 2
              /\ Occurs(q, toks)
              /\ toks[1] = q[1]
              /\ toks[2] # q[2]
              /\ Returned(p)
              /\ Less(Fin(0, 1), result[RankOf(p)].rank)

\* C28: lock discipline.  A worker holds the lock of the index only while
\* it calls requires_reindexing or commits a Document: not while it reads
\* the metadata, extracts and tokenizes the content or counts, and not when
\* it is about to take the lock.
C28_LockDiscipline ==
    \A w \in Workers : lock = w => wk[w].pc \in {"check", "remove", "insert"}

\* one worker extracts and tokenizes while the other holds the lock for its
\* commit
C28_Witness ==
    \E w \in Workers, v \in Workers :
        /\ lock = w
        /\ wk[w].pc = "insert"
        /\ wk[v].pc = "parse"

\* what the pipeline leaves out: a path the Ignore Matcher reports ignored,
\* a file name with a leading dot, a name without extension, an extension
\* that lower-cased is not in the allowlist
Filtered(p) ==
    \/ is_ignored(p, FALSE)
    \/ dot_file(names[p])
    \/ ~ extension(names[p]).some
    \/ to_ascii_lowercase(extension(names[p]).ext) \notin Allowlist

\* C29: a filtered path never reaches requires_reindexing or add_document:
\* the worker handed such a path is at the head of the closure or has
\* returned, and the index holds no Document for the path.
C29_FilteredNeverIndexed ==
    /\ \A w \in Workers : Filtered(files[w]) => wk[w].pc \in {"start", "done"}
    /\ \A p \in Paths : Filtered(p) => p \notin DOMAIN docs

\* a hidden file with an extension of the allowlist was skipped, while a
\* file with an upper-case extension of the allowlist was indexed
C29_Witness ==
    \E w \in Workers, v \in Workers :
        /\ dot_file(names[files[w]])
        /\ extension(names[files[w]]).some
        /\ to_ascii_lowercase(extension(names[files[w]]).ext) \in Allowlist
        /\ wk[w].pc = "done"
        /\ files[w] \notin DOMAIN docs
        /\ Concat(extension(names[files[v]]).ext) \notin Allowlist
        /\ files[v] \in DOMAIN docs

\* C30: the set of indexed paths never shrinks.  A path leaves docs only
\* inside the commit that replaces its Document, under the lock, and is
\* back when that commit ends; whatever becomes of the file, no other step
\* takes a path out of the index.
C30_PathsNeverShrink ==
    [][/\ \A p \in DOMAIN docs :
             \/ p \in DOMAIN docs'
             \/ \E w \in Workers :
                   files[w] = p /\ wk'[w].pc = "insert" /\ lock' = w
        /\ \A w \in Workers :
             (wk[w].pc = "insert" /\ wk'[w].pc # "insert") =>
                 files[w] \in DOMAIN docs']_vars

\* a run is over in which a worker was handed a path whose file is gone
\* from disk, or cannot be read any more, and the path still has its Document
C30_Witness ==
    /\ AllDone
    /\ \E w \in Workers :
          /\ disk[files[w]].state = "gone"
          /\ files[w] \in DOMAIN docs
    /\ \E p \in Paths : disk[p].state = "corrupt" /\ p \in DOMAIN docs

KnownExtensions ==
    Allowlist \cup XmlExtensions \cup TxtExtensions \cup {"pdf"}
    \cup {to_ascii_lowercase(extension(n).ext) : n \in FileNames}

\* C32: the allowlist of the pipeline and the dispatch of the extractor
\* accept the same extensions: an extension is in the allowlist if and only
\* if parse_entire_file_by_extension has an extractor for it, and a worker
\* whose file passed the filter and can be read is never turned away at
\* the extraction.
C32_AllowlistIsDispatch ==
    [][/\ \A e \in KnownExtensions :
             e \in Allowlist <=> extractor_for(e) # "Err"
       /\ \A w \in Workers :
             (wk[w].pc = "parse" /\ wk'[w].pc = "done") =>
                 disk[files[w]].state # "ok"]_vars

\* the files a.pdf and a.xml passed the filter and were both extracted
C32_Witness ==
    \E w \in Workers, v \in Workers :
        /\ parse_entire_file_by_extension(names[files[w]]) = "parse_entire_pdf_file"
        /\ parse_entire_file_by_extension(names[files[v]]) = "parse_entire_xml_file"
        /\ wk[w].pc = "commit_lock"
        /\ wk[v].pc = "commit_lock"

\* the selection of the App is an index of its results, or none when
\* there are none
SelectionInRange(a) ==
    IF a.results = <<>> THEN ~ a.results_state.some
    ELSE a.results_state.some /\ a.results_state.i < Len(a.results)

FreshResults(a) ==
    /\ a.last_search_query = a.query
    /\ \E order \in IterOrders(DOMAIN docs) :
          a.results = Index_search(Index, a.filename_cache, a.query, order)

\* C34: in every state of the event loop in which needs_search is false,
\* last_search_query is the query and results is what Index::search
\* returned for it; every character or backspace event sets needs_search;
\* and once the key events have stopped with a search pending, the search
\* for the final query eventually runs.
C34_ResultFreshness ==
    /\ [](~ app.needs_search => FreshResults(app))
    /\ [](/\ \A c \in KeyChars : on_key(app, c).needs_search
          /\ on_backspace(app).needs_search)
    /\ (loop.state = "running" /\ loop.events_left = 0 /\ app.needs_search)
          ~> (~ app.needs_search /\ FreshResults(app))

\* the key events have stopped and the debounced search has run for a
\* typed query that has results
C34_Witness ==
    /\ loop.state = "running"
    /\ loop.events_left = 0
    /\ loop.key = "None"
    /\ ~ app.needs_search
    /\ Len(app.query) >= 2
    /\ app.last_search_query = app.query
    /\ app.results # <<>>

====
